---- MODULE Spec2Model ----
(***************************************************************************)
(* Model of the ConvoSage chat client: the slash-command parser and        *)
(* tool-badge detector (utils/commandParser.js) and the ChatWindow         *)
(* component that calls them.                                              *)
(*                                                                         *)
(* A JavaScript string is a sequence of one-character strings, so that     *)
(* trim, split, toLowerCase, startsWith and includes are computed          *)
(* character by character.  null/undefined is the one-element sequence     *)
(* NULL, whose element is no character.                                    *)
(***************************************************************************)
EXTENDS Integers, Sequences, FiniteSets, TLC

\* ------------------------------------------------------------------ bounds
\* Longest string enumerated exhaustively over Alphabet.
MaxLen == 5
\* Most words of a generated bot reply.
MaxWords == 2

\* ------------------------------------------------------- JavaScript strings
NULL == <<"NULL">>

\* !x for a string-or-null x: null, undefined and '' are falsy.
Falsy(x) == x = NULL \/ x = <<>>

\* The characters /\s/ and String.prototype.trim treat as whitespace.
IsWhitespace(c) == c \in {" ", "\t", "\n"}

UpperCaseLetters ==
    <<"A", "B", "C", "D", "E", "F", "G", "H", "I", "J", "K", "L", "M",
      "N", "O", "P", "Q", "R", "S", "T", "U", "V", "W", "X", "Y", "Z">>

LowerCaseLetters ==
    <<"a", "b", "c", "d", "e", "f", "g", "h", "i", "j", "k", "l", "m",
      "n", "o", "p", "q", "r", "s", "t", "u", "v", "w", "x", "y", "z">>

toLowerCaseChar(c) ==
    IF \E i \in 1..Len(UpperCaseLetters) : UpperCaseLetters[i] = c
    THEN LowerCaseLetters[CHOOSE i \in 1..Len(UpperCaseLetters) : UpperCaseLetters[i] = c]
    ELSE c

\* String.prototype.toLowerCase
toLowerCase(s) == [i \in 1..Len(s) |-> toLowerCaseChar(s[i])]

\* String.prototype.trim
trim(s) ==
    LET nonWs == {i \in 1..Len(s) : ~IsWhitespace(s[i])}
    IN  IF nonWs = {} THEN <<>>
        ELSE SubSeq(s, CHOOSE i \in nonWs : \A j \in nonWs : i <= j,
                       CHOOSE i \in nonWs : \A j \in nonWs : i >= j)

\* String.prototype.startsWith
startsWith(s, prefix) ==
    Len(s) >= Len(prefix) /\ SubSeq(s, 1, Len(prefix)) = prefix

\* String.prototype.includes
includes(s, needle) ==
    \E i \in 1..(Len(s) - Len(needle) + 1) : SubSeq(s, i, i + Len(needle) - 1) = needle

\* String.prototype.slice(1), Array.prototype.slice(1)
slice1(s) == SubSeq(s, 2, Len(s))

\* lowerMessage.match(/\d+/): truthy iff some character is a digit.
matchDigits(s) ==
    \E i \in 1..Len(s) : s[i] \in {"0", "1", "2", "3", "4", "5", "6", "7", "8", "9"}

\* String.prototype.split(/\s+/): the pieces between maximal runs of
\* whitespace; a run at the start or the end leaves an empty piece there,
\* and the empty string splits to one empty piece.
RECURSIVE splitWhitespace(_)
splitWhitespace(s) ==
    LET ws == {i \in 1..Len(s) : IsWhitespace(s[i])}
    IN  IF ws = {} THEN <<s>>
        ELSE LET i == CHOOSE k \in ws : \A m \in ws : k <= m
                 after == {k \in (i + 1)..Len(s) : ~IsWhitespace(s[k])}
                 j == IF after = {} THEN Len(s) + 1
                      ELSE CHOOSE k \in after : \A m \in after : k <= m
             IN  <<SubSeq(s, 1, i - 1)>> \o splitWhitespace(SubSeq(s, j, Len(s)))

\* Array.prototype.join(' ')
RECURSIVE joinSpace(_)
joinSpace(parts) ==
    IF parts = <<>> THEN <<>>
    ELSE IF Len(parts) = 1 THEN parts[1]
    ELSE parts[1] \o <<" ">> \o joinSpace(Tail(parts))

\* ---------------------------------------------------------- commandParser.js
\* COMMANDS with CLEAR given the name of RESET.
COMMANDS_clearNamedReset ==
    [CALC      |-> <<"c", "a", "l", "c">>,
     CALCULATE |-> <<"c", "a", "l", "c", "u", "l", "a", "t", "e">>,
     PRODUCTS  |-> <<"p", "r", "o", "d", "u", "c", "t", "s">>,
     PRODUCT   |-> <<"p", "r", "o", "d", "u", "c", "t">>,
     OUTLETS   |-> <<"o", "u", "t", "l", "e", "t", "s">>,
     OUTLET    |-> <<"o", "u", "t", "l", "e", "t">>,
     LOCATIONS |-> <<"l", "o", "c", "a", "t", "i", "o", "n", "s">>,
     RESET     |-> <<"r", "e", "s", "e", "t">>,
     CLEAR     |-> <<"r", "e", "s", "e", "t">>,
     HELP      |-> <<"h", "e", "l", "p">>]

COMMANDS ==
    [CALC      |-> <<"c", "a", "l", "c">>,
     CALCULATE |-> <<"c", "a", "l", "c", "u", "l", "a", "t", "e">>,
     PRODUCTS  |-> <<"p", "r", "o", "d", "u", "c", "t", "s">>,
     PRODUCT   |-> <<"p", "r", "o", "d", "u", "c", "t">>,
     OUTLETS   |-> <<"o", "u", "t", "l", "e", "t", "s">>,
     OUTLET    |-> <<"o", "u", "t", "l", "e", "t">>,
     LOCATIONS |-> <<"l", "o", "c", "a", "t", "i", "o", "n", "s">>,
     RESET     |-> <<"r", "e", "s", "e", "t">>,
     CLEAR     |-> <<"c", "l", "e", "a", "r">>,
     HELP      |-> <<"h", "e", "l", "p">>]

\* The object literal in key insertion order, which is the order
\* Object.keys(COMMAND_DESCRIPTIONS) yields.
COMMAND_DESCRIPTIONS ==
    <<[name |-> COMMANDS.CALC,
       description |->
         <<"P", "e", "r", "f", "o", "r", "m", " ", "c", "a", "l", "c", "u", "l", "a", "t", "i", "o", "n", "s", " ", "-", " ", "e", ".", "g", ".", ",", " ", "/", "c", "a", "l", "c", " ", "2", "5", " ", "*", " ", "4">>],
      [name |-> COMMANDS.PRODUCTS,
       description |->
         <<"S", "e", "a", "r", "c", "h", " ", "p", "r", "o", "d", "u", "c", "t", "s", " ", "-", " ", "e", ".", "g", ".", ",", " ", "/", "p", "r", "o", "d", "u", "c", "t", "s", " ", "t", "u", "m", "b", "l", "e", "r">>],
      [name |-> COMMANDS.OUTLETS,
       description |->
         <<"F", "i", "n", "d", " ", "o", "u", "t", "l", "e", "t", "s", " ", "-", " ", "e", ".", "g", ".", ",", " ", "/", "o", "u", "t", "l", "e", "t", "s", " ", "K", "u", "a", "l", "a", " ", "L", "u", "m", "p", "u", "r">>],
      [name |-> COMMANDS.RESET,
       description |->
         <<"C", "l", "e", "a", "r", " ", "c", "o", "n", "v", "e", "r", "s", "a", "t", "i", "o", "n", " ", "h", "i", "s", "t", "o", "r", "y">>],
      [name |-> COMMANDS.HELP,
       description |->
         <<"S", "h", "o", "w", " ", "a", "v", "a", "i", "l", "a", "b", "l", "e", " ", "c", "o", "m", "m", "a", "n", "d", "s">>]>>

\* isCommand testing the first character of the text as given, untrimmed.
isCommand_withoutTrim(message) ==
    IF Falsy(message) THEN FALSE
    ELSE startsWith(message, <<"/">>)

isCommand(message) ==
    IF Falsy(message) THEN FALSE
    ELSE startsWith(trim(message), <<"/">>)

\* parseCommand's null, and the {command, args} object it returns.
NullCommand == [isNull |-> TRUE, command |-> <<>>, args |-> <<>>]

ParsedCommand(command, args) == [isNull |-> FALSE, command |-> command, args |-> args]

parseCommand(message) ==
    IF ~isCommand(message) THEN NullCommand
    ELSE LET trimmed == trim(message)
             parts == splitWhitespace(slice1(trimmed))
         IN  IF Len(parts) = 0 THEN NullCommand
             ELSE LET command == toLowerCase(parts[1])
                      args == joinSpace(slice1(parts))
                  IN  ParsedCommand(command, IF Falsy(args) THEN <<>> ELSE args)

\* A suggestion whose display form lacks the '/'.
Suggestion_displayWithoutSlash(entry) ==
    [command |-> entry.name, description |-> entry.description, display |-> entry.name]

Suggestion(entry) ==
    [command |-> entry.name, description |-> entry.description,
     display |-> <<"/">> \o entry.name]

\* Array.prototype.filter followed by map, over Object.keys(COMMAND_DESCRIPTIONS).
RECURSIVE filterMapSuggestions(_, _)
filterMapSuggestions(entries, partial) ==
    IF entries = <<>> THEN <<>>
    ELSE (IF startsWith(Head(entries).name, partial)
          THEN <<Suggestion(Head(entries))>> ELSE <<>>)
         \o filterMapSuggestions(Tail(entries), partial)

\* getCommandSuggestions comparing the text after the '/' as typed, without
\* lower-casing it.
getCommandSuggestions_caseSensitive(input) ==
    IF Falsy(input) \/ ~startsWith(input, <<"/">>) THEN <<>>
    ELSE LET partial == slice1(input)
         IN  IF partial = <<>>
             THEN [i \in 1..Len(COMMAND_DESCRIPTIONS) |-> Suggestion(COMMAND_DESCRIPTIONS[i])]
             ELSE filterMapSuggestions(COMMAND_DESCRIPTIONS, partial)

getCommandSuggestions(input) ==
    IF Falsy(input) \/ ~startsWith(input, <<"/">>) THEN <<>>
    ELSE LET partial == toLowerCase(slice1(input))
         IN  IF partial = <<>>
             THEN [i \in 1..Len(COMMAND_DESCRIPTIONS) |-> Suggestion(COMMAND_DESCRIPTIONS[i])]
             ELSE filterMapSuggestions(COMMAND_DESCRIPTIONS, partial)

\* A help line that gives the name without its leading '/'.
helpLine_withoutSlash(entry) ==
    <<"BULLET", " ">> \o entry.name \o <<" ", "-", " ">> \o entry.description

\* One line of the help text; BULLET stands for the character U+2022.
helpLine(entry) ==
    <<"BULLET", " ", "/">> \o entry.name \o <<" ", "-", " ">> \o entry.description

RECURSIVE joinNewline(_)
joinNewline(lines) ==
    IF lines = <<>> THEN <<>>
    ELSE IF Len(lines) = 1 THEN lines[1]
    ELSE lines[1] \o <<"\n">> \o joinNewline(Tail(lines))

\* String literals of commandToMessage, getHelpMessage and detectToolUsed.
STR_Calculate == <<"C", "a", "l", "c", "u", "l", "a", "t", "e", " ">>

STR_PleaseProvide == <<"P", "l", "e", "a", "s", "e", " ", "p", "r", "o", "v", "i", "d", "e", " ", "a", " ", "c", "a", "l", "c", "u", "l", "a", "t", "i", "o", "n">>

STR_ShowMe == <<"S", "h", "o", "w", " ", "m", "e", " ">>

STR_ShowAllProducts == <<"S", "h", "o", "w", " ", "m", "e", " ", "a", "l", "l", " ", "p", "r", "o", "d", "u", "c", "t", "s">>

STR_FindOutletsIn == <<"F", "i", "n", "d", " ", "o", "u", "t", "l", "e", "t", "s", " ", "i", "n", " ">>

STR_ShowAllOutlets == <<"S", "h", "o", "w", " ", "m", "e", " ", "a", "l", "l", " ", "o", "u", "t", "l", "e", "t", "s">>

STR_AvailableCommands == <<"A", "v", "a", "i", "l", "a", "b", "l", "e", " ", "c", "o", "m", "m", "a", "n", "d", "s", ":", "\n">>

KW_result == <<"r", "e", "s", "u", "l", "t">>

KW_product == <<"p", "r", "o", "d", "u", "c", "t">>

KW_tumbler == <<"t", "u", "m", "b", "l", "e", "r">>

KW_bottle == <<"b", "o", "t", "t", "l", "e">>

KW_glass == <<"g", "l", "a", "s", "s">>

KW_outlet == <<"o", "u", "t", "l", "e", "t">>

KW_location == <<"l", "o", "c", "a", "t", "i", "o", "n">>

KW_address == <<"a", "d", "d", "r", "e", "s", "s">>

KW_drive_through == <<"d", "r", "i", "v", "e", "-", "t", "h", "r", "o", "u", "g", "h">>

getHelpMessage ==
    STR_AvailableCommands \o joinNewline([i \in 1..Len(COMMAND_DESCRIPTIONS) |-> helpLine(COMMAND_DESCRIPTIONS[i])])

\* commandToMessage with the case for the alias 'outlet' left out.
commandToMessage_withoutOutletAlias(command, args) ==
    CASE command = COMMANDS.CALC \/ command = COMMANDS.CALCULATE ->
           IF ~Falsy(args) THEN STR_Calculate \o args ELSE STR_PleaseProvide
      [] command = COMMANDS.PRODUCTS \/ command = COMMANDS.PRODUCT ->
           IF ~Falsy(args) THEN STR_ShowMe \o args ELSE STR_ShowAllProducts
      [] command = COMMANDS.OUTLETS \/ command = COMMANDS.LOCATIONS ->
           IF ~Falsy(args) THEN STR_FindOutletsIn \o args ELSE STR_ShowAllOutlets
      [] command = COMMANDS.HELP -> getHelpMessage
      [] OTHER -> NULL

\* commandToMessage with the help text as the default case.
commandToMessage_helpByDefault(command, args) ==
    CASE command = COMMANDS.CALC \/ command = COMMANDS.CALCULATE ->
           IF ~Falsy(args) THEN STR_Calculate \o args ELSE STR_PleaseProvide
      [] command = COMMANDS.PRODUCTS \/ command = COMMANDS.PRODUCT ->
           IF ~Falsy(args) THEN STR_ShowMe \o args ELSE STR_ShowAllProducts
      [] command = COMMANDS.OUTLETS \/ command = COMMANDS.OUTLET
           \/ command = COMMANDS.LOCATIONS ->
           IF ~Falsy(args) THEN STR_FindOutletsIn \o args ELSE STR_ShowAllOutlets
      [] OTHER -> getHelpMessage

commandToMessage(command, args) ==
    CASE command = COMMANDS.CALC \/ command = COMMANDS.CALCULATE ->
           IF ~Falsy(args)
           THEN STR_Calculate \o args
           ELSE STR_PleaseProvide
      [] command = COMMANDS.PRODUCTS \/ command = COMMANDS.PRODUCT ->
           IF ~Falsy(args)
           THEN STR_ShowMe \o args
           ELSE STR_ShowAllProducts
      [] command = COMMANDS.OUTLETS \/ command = COMMANDS.OUTLET
           \/ command = COMMANDS.LOCATIONS ->
           IF ~Falsy(args)
           THEN STR_FindOutletsIn \o args
           ELSE STR_ShowAllOutlets
      [] command = COMMANDS.HELP -> getHelpMessage
      [] OTHER -> NULL

\* The value of a call that throws a TypeError.
TypeError == "TypeError"

\* detectToolUsed with the product rule tried before the calculator rule.
detectToolUsed_productsFirst(message) ==
    IF message = NULL THEN TypeError
    ELSE LET lowerMessage == toLowerCase(message)
         IN  IF includes(lowerMessage, KW_product)
                \/ includes(lowerMessage, KW_tumbler)
                \/ includes(lowerMessage, KW_bottle)
                \/ includes(lowerMessage, KW_glass)
             THEN "products"
             ELSE IF includes(lowerMessage, KW_result) /\ matchDigits(lowerMessage)
             THEN "calculator"
             ELSE IF includes(lowerMessage, KW_outlet)
                     \/ includes(lowerMessage, KW_location)
                     \/ includes(lowerMessage, KW_address)
                     \/ includes(lowerMessage, KW_drive_through)
             THEN "outlets"
             ELSE "null"

\* detectToolUsed returns a tool name or null; it calls message.toLowerCase()
\* with no guard, which throws when message is null or undefined.
detectToolUsed(message) ==
    IF message = NULL THEN TypeError
    ELSE LET lowerMessage == toLowerCase(message)
         IN  IF includes(lowerMessage, KW_result)
                /\ matchDigits(lowerMessage)
             THEN "calculator"
             ELSE IF includes(lowerMessage, KW_product)
                     \/ includes(lowerMessage, KW_tumbler)
                     \/ includes(lowerMessage, KW_bottle)
                     \/ includes(lowerMessage, KW_glass)
             THEN "products"
             ELSE IF includes(lowerMessage, KW_outlet)
                     \/ includes(lowerMessage, KW_location)
                     \/ includes(lowerMessage, KW_address)
                     \/ includes(lowerMessage, KW_drive_through)
             THEN "outlets"
             ELSE "null"

getToolName(tool) ==
    CASE tool = "calculator" -> "Calculator"
      [] tool = "products" -> "Product Search"
      [] tool = "outlets" -> "Outlet Finder"
      [] OTHER -> "Conversation"

\* The emoji of a tool: ABACUS, COFFEE, PIN and SPEECH stand for the
\* characters U+1F9EE, U+2615, U+1F4CD and U+1F4AC.
getToolIcon(tool) ==
    CASE tool = "calculator" -> "ABACUS"
      [] tool = "products" -> "COFFEE"
      [] tool = "outlets" -> "PIN"
      [] OTHER -> "SPEECH"

\* ------------------------------------------- ToolBadge.jsx, MessageBubble.jsx
\* What a message bubble renders under its text: a badge with an icon and a
\* name, or nothing; `threw` when rendering raised an exception.
NoBadge == [rendered |-> FALSE, icon |-> "", name |-> "", threw |-> FALSE]

Badge(icon, name) == [rendered |-> TRUE, icon |-> icon, name |-> name, threw |-> FALSE]

RenderThrows == [rendered |-> FALSE, icon |-> "", name |-> "", threw |-> TRUE]

\* The ToolBadge component; the prop is a tool name, or "null" when absent.
ToolBadge(tool) ==
    IF tool = "null" \/ tool = "conversation" THEN NoBadge
    ELSE Badge(getToolIcon(tool), getToolName(tool))

\* A bubble that shows the badge whoever sent the message.
MessageBubble_badgeForAnySender(message, sender, tool) ==
    LET detectedTool == IF tool # "null" THEN tool ELSE detectToolUsed(message)
    IN  IF detectedTool = TypeError THEN RenderThrows
        ELSE IF detectedTool # "null" THEN ToolBadge(detectedTool)
        ELSE NoBadge

\* The badge part of the MessageBubble component.
MessageBubble(message, sender, tool) ==
    LET isUser == sender = "user"
        detectedTool == IF tool # "null" THEN tool
                        ELSE IF ~isUser THEN detectToolUsed(message)
                        ELSE "null"
    IN  IF detectedTool = TypeError THEN RenderThrows
        ELSE IF detectedTool # "null" /\ ~isUser THEN ToolBadge(detectedTool)
        ELSE NoBadge

\* MessageList renders one bubble per message and passes no tool prop.
MessageListBubble(msg) == MessageBubble(msg.message, msg.sender, "null")


\* ------------------------------------------------------------ ChatWindow.jsx
\* Most messages the conversation holds before the user stops sending.
MaxMessages == 4
\* Most session DELETE requests in flight at once.
MaxPendingDeletes == 1

VARIABLES
    messages,         \* useState([]): the {message, sender} objects shown
    isLoading,        \* useState(false)
    sessionId,        \* useState(null)
    error,            \* useState(null): the text of the error banner
    localStorage,     \* the keys 'chatSessionId' and 'chatMessages' (NULL: absent)
    chatRequests,     \* POST /chat/ requests awaited by handleSendMessage
    historyRequests,  \* GET /chat/history/<sid> requests awaited by loadHistory
    pendingDeletes    \* DELETE /chat/session/<sid> requests awaited by handleClearChat

uiVars ==
    <<messages, isLoading, sessionId, error, localStorage, chatRequests,
      historyRequests, pendingDeletes>>

userMessage(text) == [message |-> text, sender |-> "user"]

botMessage(text) == [message |-> text, sender |-> "bot"]

\* JSON.stringify of the messages array: the text lists, per message, the
\* values of its fields in order. JSON.parse rebuilds the objects from it.
JSONstringify(value) ==
    <<"JSON", [i \in 1..Len(value) |-> <<value[i].message, value[i].sender>>]>>

JSONparse(text) ==
    [i \in 1..Len(text[2]) |-> [message |-> text[2][i][1], sender |-> text[2][i][2]]]

\* What the user may have in the composer when submitting.
ComposerTexts ==
    {<<"/", "h", "e", "l", "p">>,
     <<"/", "r", "e", "s", "e", "t">>,
     <<"/", "c", "l", "e", "a", "r">>,
     <<" ", "/", "C", "a", "l", "c", " ", "5", " ">>,
     <<"/", "f", "o", "o">>,
     <<"h", "i">>,
     <<"/">>,
     <<" ", " ">>}

\* What the backend may answer: reply texts, session ids, stored histories.
BackendReplies ==
    {<<"T", "h", "e", " ", "r", "e", "s", "u", "l", "t", " ", "i", "s", " ", "5">>,
     <<"H", "e", "l", "l", "o">>}

SessionIds == {<<"s", "1">>, <<"s", "2">>}

\* Bodies of an OK history response: `history` may be absent.
BackendHistories ==
    {[hasHistory |-> FALSE, history |-> <<>>],
     [hasHistory |-> TRUE, history |-> <<>>],
     [hasHistory |-> TRUE,
      history |-> <<[input |-> <<"h", "i">>, output |-> <<"H", "e", "l", "l", "o">>]>>],
     [hasHistory |-> TRUE,
      history |-> <<[input |-> <<"q", "1">>, output |-> <<"a", "1">>],
                    [input |-> <<"q", "2">>, output |-> <<"a", "2">>]>>]}

STR_HttpError ==
    <<"H", "T", "T", "P", " ", "5", "0", "0", ":", " ", "I", "n", "t", "e", "r", "n", "a", "l", " ", "S", "e", "r", "v", "e", "r", " ", "E", "r", "r", "o", "r">>

STR_FailedToFetch ==
    <<"F", "a", "i", "l", "e", "d", " ", "t", "o", " ", "f", "e", "t", "c", "h">>

\* The template `X Error: ${error.message || '...'}`; CROSSMARK stands for
\* the character U+274C.
errorMessageText(msg) ==
    <<"CROSSMARK", " ">> \o <<"E", "r", "r", "o", "r", ":", " ">>
    \o (IF Falsy(msg)
        THEN <<"F", "a", "i", "l", "e", "d", " ", "t", "o", " ", "c", "o", "n", "n", "e", "c", "t", " ", "t", "o", " ", "s", "e", "r", "v", "e", "r", ".", " ", "P", "l", "e", "a", "s", "e", " ", "t", "r", "y", " ", "a", "g", "a", "i", "n", ".">>
        ELSE msg)

\* The save effect with an empty dependency list: it runs on mount only,
\* when there is nothing to save.
saveEffect_onMountOnly(storage, newMessages) == storage

\* The effect that saves messages whenever they change: it runs after the
\* render that follows a handler, so it is taken with the handler's step.
saveEffect(storage, newMessages) ==
    IF newMessages # messages /\ Len(newMessages) > 0
    THEN [storage EXCEPT !.chatMessages = JSONstringify(newMessages)]
    ELSE storage

\* handleClearChat, given the user's answer to window.confirm and the value
\* the error state has when it is called.
handleClearChat(confirmed, errorNow) ==
    /\ UNCHANGED <<isLoading, chatRequests, historyRequests>>
    /\ IF ~confirmed
       THEN /\ error' = errorNow
            /\ UNCHANGED <<messages, sessionId, localStorage, pendingDeletes>>
       ELSE IF ~Falsy(sessionId)
       THEN /\ pendingDeletes < MaxPendingDeletes
            /\ pendingDeletes' = pendingDeletes + 1
            /\ error' = errorNow
            /\ UNCHANGED <<messages, sessionId, localStorage>>
       ELSE /\ messages' = <<>>
            /\ sessionId' = NULL
            /\ error' = NULL
            /\ localStorage' = [chatSessionId |-> NULL, chatMessages |-> NULL]
            /\ UNCHANGED pendingDeletes

\* The trash button.
ClickClearChat ==
    \E confirmed \in BOOLEAN : handleClearChat(confirmed, error)

\* The awaited DELETE completes, with whatever HTTP status: the code after
\* the await clears the UI and the storage.
DeleteResolves ==
    /\ pendingDeletes > 0
    /\ pendingDeletes' = pendingDeletes - 1
    /\ messages' = <<>>
    /\ sessionId' = NULL
    /\ error' = NULL
    /\ localStorage' = [chatSessionId |-> NULL, chatMessages |-> NULL]
    /\ UNCHANGED <<isLoading, chatRequests, historyRequests>>

\* A catch block that clears the UI and the storage all the same.
DeleteRejects_clearsAnyway ==
    /\ pendingDeletes > 0
    /\ pendingDeletes' = pendingDeletes - 1
    /\ messages' = <<>>
    /\ sessionId' = NULL
    /\ error' = NULL
    /\ localStorage' = [chatSessionId |-> NULL, chatMessages |-> NULL]
    /\ UNCHANGED <<isLoading, chatRequests, historyRequests>>

\* The awaited DELETE rejects (network error): the catch block only logs.
DeleteRejects ==
    /\ pendingDeletes > 0
    /\ pendingDeletes' = pendingDeletes - 1
    /\ UNCHANGED <<messages, isLoading, sessionId, error, localStorage,
                   chatRequests, historyRequests>>

\* handleSendMessage up to the fetch: the POST it issues is added to
\* chatRequests with the sessionId of the render the handler belongs to.
sendToBackend(messageText) ==
    /\ messages' = Append(messages, userMessage(messageText))
    /\ isLoading' = TRUE
    /\ error' = NULL
    /\ chatRequests' = chatRequests \cup
                         {[message |-> messageText, session_id |-> sessionId]}
    /\ localStorage' = saveEffect(localStorage, messages')
    /\ UNCHANGED <<sessionId, historyRequests, pendingDeletes>>

\* handleSendMessage returning, after it has cleared the error, when the
\* translator knows no message for the command.
handleSendMessage_dropsUnknownCommand(messageText) ==
    LET parsed == parseCommand(messageText)
    IN  IF ~parsed.isNull /\ parsed.command \in {COMMANDS.RESET, COMMANDS.CLEAR}
        THEN \E confirmed \in BOOLEAN : handleClearChat(confirmed, NULL)
        ELSE IF ~parsed.isNull /\ parsed.command = COMMANDS.HELP
        THEN /\ messages' = messages \o <<userMessage(messageText), botMessage(getHelpMessage)>>
             /\ error' = NULL
             /\ localStorage' = saveEffect(localStorage, messages')
             /\ UNCHANGED <<isLoading, sessionId, chatRequests, historyRequests,
                            pendingDeletes>>
        ELSE IF ~parsed.isNull /\ Falsy(commandToMessage(parsed.command, parsed.args))
        THEN /\ error' = NULL
             /\ UNCHANGED <<messages, isLoading, sessionId, localStorage, chatRequests,
                            historyRequests, pendingDeletes>>
        ELSE sendToBackend(IF parsed.isNull THEN messageText
                           ELSE commandToMessage(parsed.command, parsed.args))

\* handleSendMessage without its branch for 'help': the command goes to the
\* translator like any other.
handleSendMessage_helpNotIntercepted(messageText) ==
    LET parsed == parseCommand(messageText)
    IN  IF ~parsed.isNull /\ parsed.command \in {COMMANDS.RESET, COMMANDS.CLEAR}
        THEN \E confirmed \in BOOLEAN : handleClearChat(confirmed, NULL)
        ELSE LET naturalMessage ==
                     IF parsed.isNull THEN NULL
                     ELSE commandToMessage(parsed.command, parsed.args)
             IN  sendToBackend(IF ~Falsy(naturalMessage) THEN naturalMessage
                               ELSE messageText)

\* handleSendMessage intercepting 'reset' but not its alias 'clear'.
handleSendMessage_clearNotIntercepted(messageText) ==
    LET parsed == parseCommand(messageText)
    IN  IF ~parsed.isNull /\ parsed.command = COMMANDS.RESET
        THEN \E confirmed \in BOOLEAN : handleClearChat(confirmed, NULL)
        ELSE IF ~parsed.isNull /\ parsed.command = COMMANDS.HELP
        THEN /\ messages' = messages \o <<userMessage(messageText), botMessage(getHelpMessage)>>
             /\ error' = NULL
             /\ localStorage' = saveEffect(localStorage, messages')
             /\ UNCHANGED <<isLoading, sessionId, chatRequests, historyRequests,
                            pendingDeletes>>
        ELSE LET naturalMessage ==
                     IF parsed.isNull THEN NULL
                     ELSE commandToMessage(parsed.command, parsed.args)
             IN  sendToBackend(IF ~Falsy(naturalMessage) THEN naturalMessage
                               ELSE messageText)

\* handleSendMessage showing the text as typed in the user message while
\* posting the translated text.
handleSendMessage_showsRawCommand(messageText) ==
    LET parsed == parseCommand(messageText)
    IN  IF ~parsed.isNull /\ parsed.command \in {COMMANDS.RESET, COMMANDS.CLEAR}
        THEN \E confirmed \in BOOLEAN : handleClearChat(confirmed, NULL)
        ELSE IF ~parsed.isNull /\ parsed.command = COMMANDS.HELP
        THEN /\ messages' = messages \o <<userMessage(messageText), botMessage(getHelpMessage)>>
             /\ error' = NULL
             /\ localStorage' = saveEffect(localStorage, messages')
             /\ UNCHANGED <<isLoading, sessionId, chatRequests, historyRequests,
                            pendingDeletes>>
        ELSE LET naturalMessage ==
                     IF parsed.isNull THEN NULL
                     ELSE commandToMessage(parsed.command, parsed.args)
             IN  /\ messages' = Append(messages, userMessage(messageText))
                 /\ isLoading' = TRUE
                 /\ error' = NULL
                 /\ chatRequests' = chatRequests \cup
                        {[message |-> IF ~Falsy(naturalMessage) THEN naturalMessage
                                      ELSE messageText,
                          session_id |-> sessionId]}
                 /\ localStorage' = saveEffect(localStorage, messages')
                 /\ UNCHANGED <<sessionId, historyRequests, pendingDeletes>>

handleSendMessage(messageText) ==
    LET parsed == parseCommand(messageText)
    IN  IF ~parsed.isNull /\ parsed.command \in {COMMANDS.RESET, COMMANDS.CLEAR}
        THEN \E confirmed \in BOOLEAN : handleClearChat(confirmed, NULL)
        ELSE IF ~parsed.isNull /\ parsed.command = COMMANDS.HELP
        THEN /\ messages' = messages \o <<userMessage(messageText), botMessage(getHelpMessage)>>
             /\ error' = NULL
             /\ localStorage' = saveEffect(localStorage, messages')
             /\ UNCHANGED <<isLoading, sessionId, chatRequests, historyRequests,
                            pendingDeletes>>
        ELSE LET naturalMessage ==
                     IF parsed.isNull THEN NULL
                     ELSE commandToMessage(parsed.command, parsed.args)
             IN  sendToBackend(IF ~Falsy(naturalMessage) THEN naturalMessage
                               ELSE messageText)

\* handleSubmit testing the trimmed text only, not isLoading.
handleSubmit_ignoresLoading(text) ==
    LET trimmedMessage == trim(text)
    IN  IF Falsy(trimmedMessage)
        THEN UNCHANGED uiVars
        ELSE handleSendMessage(trimmedMessage)

\* InputComposer's handleSubmit with `text` in the composer: it sends the
\* trimmed text unless that is empty or a reply is being awaited.
handleSubmit(text) ==
    LET trimmedMessage == trim(text)
    IN  IF Falsy(trimmedMessage) \/ isLoading
        THEN UNCHANGED uiVars
        ELSE handleSendMessage(trimmedMessage)

Submit ==
    /\ Len(messages) + 2 <= MaxMessages
    /\ \E text \in ComposerTexts : handleSubmit(text)

\* The catch block setting the banner but adding no message to the list.
chatFails_withoutErrorMessage(req, msg) ==
    /\ chatRequests' = chatRequests \ {req}
    /\ error' = (IF Falsy(msg) THEN <<"F", "a", "i", "l", "e", "d", " ", "t", "o", " ", "s", "e", "n", "d", " ", "m", "e", "s", "s", "a", "g", "e", ".", " ", "P", "l", "e", "a", "s", "e", " ", "t", "r", "y", " ", "a", "g", "a", "i", "n", ".">>
                 ELSE msg)
    /\ messages' = messages
    /\ isLoading' = FALSE
    /\ localStorage' = saveEffect(localStorage, messages')
    /\ UNCHANGED <<sessionId, historyRequests, pendingDeletes>>

\* The catch block without the finally block that follows it.
chatFails_withoutFinally(req, msg) ==
    /\ chatRequests' = chatRequests \ {req}
    /\ error' = (IF Falsy(msg) THEN <<"F", "a", "i", "l", "e", "d", " ", "t", "o", " ", "s", "e", "n", "d", " ", "m", "e", "s", "s", "a", "g", "e", ".", " ", "P", "l", "e", "a", "s", "e", " ", "t", "r", "y", " ", "a", "g", "a", "i", "n", ".">>
                 ELSE msg)
    /\ messages' = Append(messages, botMessage(errorMessageText(msg)))
    /\ isLoading' = isLoading
    /\ localStorage' = saveEffect(localStorage, messages')
    /\ UNCHANGED <<sessionId, historyRequests, pendingDeletes>>

\* The code of handleSendMessage that follows a failed fetch: the catch and
\* finally blocks.
chatFails(req, msg) ==
    /\ chatRequests' = chatRequests \ {req}
    /\ error' = (IF Falsy(msg) THEN <<"F", "a", "i", "l", "e", "d", " ", "t", "o", " ", "s", "e", "n", "d", " ", "m", "e", "s", "s", "a", "g", "e", ".", " ", "P", "l", "e", "a", "s", "e", " ", "t", "r", "y", " ", "a", "g", "a", "i", "n", ".">>
                 ELSE msg)
    /\ messages' = Append(messages, botMessage(errorMessageText(msg)))
    /\ isLoading' = FALSE
    /\ localStorage' = saveEffect(localStorage, messages')
    /\ UNCHANGED <<sessionId, historyRequests, pendingDeletes>>

\* The continuation storing the session_id of every response that has one.
chatResolves_alwaysStoresSession(req, reply, sid) ==
    /\ chatRequests' = chatRequests \ {req}
    /\ messages' = Append(messages, botMessage(reply))
    /\ IF ~Falsy(sid)
       THEN /\ sessionId' = sid
            /\ localStorage' =
                 saveEffect([localStorage EXCEPT !.chatSessionId = sid], messages')
       ELSE /\ sessionId' = sessionId
            /\ localStorage' = saveEffect(localStorage, messages')
    /\ isLoading' = FALSE
    /\ UNCHANGED <<error, historyRequests, pendingDeletes>>

\* The POST resolves with an OK status and the body {response, session_id}.
\* sessionId in this code is the one captured when the message was sent.
chatResolves(req, reply, sid) ==
    /\ chatRequests' = chatRequests \ {req}
    /\ messages' = Append(messages, botMessage(reply))
    /\ IF Falsy(req.session_id) /\ ~Falsy(sid)
       THEN /\ sessionId' = sid
            /\ localStorage' =
                 saveEffect([localStorage EXCEPT !.chatSessionId = sid], messages')
       ELSE /\ sessionId' = sessionId
            /\ localStorage' = saveEffect(localStorage, messages')
    /\ isLoading' = FALSE
    /\ UNCHANGED <<error, historyRequests, pendingDeletes>>

ChatResolves ==
    \E req \in chatRequests, reply \in BackendReplies, sid \in SessionIds \cup {NULL} :
        chatResolves(req, reply, sid)

\* The POST resolves with a status that is not OK.
ChatHttpError ==
    \E req \in chatRequests : chatFails(req, STR_HttpError)

\* The POST rejects: the network is down or the body is no JSON.
ChatRejects ==
    \E req \in chatRequests : chatFails(req, STR_FailedToFetch)

\* The history turns as messages: for each turn its input, then its output.
RECURSIVE historyMessages(_)
historyMessages(history) ==
    IF history = <<>> THEN <<>>
    ELSE <<userMessage(Head(history).input), botMessage(Head(history).output)>>
         \o historyMessages(Tail(history))

\* The history response replacing whatever the list holds.
historyResolves_overridesMessages(req, data) ==
    /\ historyRequests' = historyRequests \ {req}
    /\ messages' = IF data.hasHistory /\ Len(data.history) > 0
                   THEN historyMessages(data.history)
                   ELSE messages
    /\ localStorage' = saveEffect(localStorage, messages')
    /\ UNCHANGED <<isLoading, sessionId, error, chatRequests, pendingDeletes>>

\* GET /chat/history resolves with an OK status and the body {history}.
historyResolves(req, data) ==
    /\ historyRequests' = historyRequests \ {req}
    /\ messages' = IF data.hasHistory /\ Len(data.history) > 0 /\ Len(messages) = 0
                   THEN historyMessages(data.history)
                   ELSE messages
    /\ localStorage' = saveEffect(localStorage, messages')
    /\ UNCHANGED <<isLoading, sessionId, error, chatRequests, pendingDeletes>>

HistoryResolves ==
    \E req \in historyRequests, data \in BackendHistories : historyResolves(req, data)

\* GET /chat/history resolves with a status that is not OK, or rejects.
HistoryFails ==
    \E req \in historyRequests :
        /\ historyRequests' = historyRequests \ {req}
        /\ UNCHANGED <<messages, isLoading, sessionId, error, localStorage,
                       chatRequests, pendingDeletes>>

\* The button of the error banner.
DismissError ==
    /\ error # NULL
    /\ error' = NULL
    /\ UNCHANGED <<messages, isLoading, sessionId, localStorage, chatRequests,
                   historyRequests, pendingDeletes>>

\* The page is reloaded: the component is constructed anew, what the old page
\* awaited is gone, and the mount effect reads localStorage.
Reload ==
    LET savedSessionId == localStorage.chatSessionId
        savedMessages == localStorage.chatMessages
    IN  /\ isLoading' = FALSE
        /\ error' = NULL
        /\ chatRequests' = {}
        /\ pendingDeletes' = 0
        /\ IF ~Falsy(savedSessionId)
           THEN /\ sessionId' = savedSessionId
                /\ messages' = IF ~Falsy(savedMessages) THEN JSONparse(savedMessages)
                               ELSE <<>>
                /\ historyRequests' = {[sid |-> savedSessionId]}
           ELSE /\ sessionId' = NULL
                /\ messages' = <<>>
                /\ historyRequests' = {}
        /\ UNCHANGED localStorage

UiInit ==
    /\ messages = <<>>
    /\ isLoading = FALSE
    /\ sessionId = NULL
    /\ error = NULL
    /\ localStorage = [chatSessionId |-> NULL, chatMessages |-> NULL]
    /\ chatRequests = {}
    /\ historyRequests = {}
    /\ pendingDeletes = 0

\* ------------------------------------------------- calls of the pure functions
\* One call of an exported function of commandParser.js: the function called,
\* its argument(s) and what it returned.
\* --------------------------------------------------------- InputComposer.jsx
\* Most calls of onSendMessage recorded.
MaxSent == 1

VARIABLES
    inputMessage,             \* useState(''): the text in the textarea
    showSuggestions,          \* useState(false)
    suggestions,              \* useState([])
    selectedSuggestionIndex,  \* useState(0)
    sent                      \* the texts onSendMessage was called with

icVars == <<inputMessage, showSuggestions, suggestions, selectedSuggestionIndex, sent>>

\* The state of the parent that the composer neither reads nor changes.
parentVars ==
    <<messages, sessionId, error, localStorage, chatRequests, historyRequests,
      pendingDeletes>>

IcInit ==
    /\ inputMessage = <<>>
    /\ showSuggestions = FALSE
    /\ suggestions = <<>>
    /\ selectedSuggestionIndex = 0
    /\ sent = <<>>

\* Values the textarea may take by one change event (typing, deleting,
\* pasting).
TypedTexts ==
    {<<>>, <<"/">>, <<"/", "c">>, <<"/", "C">>, <<"/", "h">>, <<"/", "h", "e", "l", "p">>, <<"/", "x">>, <<" ", "/", "c">>, <<"h", "i">>, <<" ", " ">>, <<"/", "c", "a", "l", "c", " ", "5">>}

Keys == {"ArrowDown", "ArrowUp", "Escape", "Enter", "a"}

\* The parent's handleSendMessage as the composer sees it: the call is
\* made with the text, and isLoading becomes true when the parent posts the
\* text to the backend (not for reset, clear and help).
onSendMessage(trimmedMessage) ==
    /\ Len(sent) < MaxSent
    /\ sent' = Append(sent, trimmedMessage)
    /\ isLoading' = LET parsed == parseCommand(trimmedMessage)
                    IN  parsed.isNull
                        \/ parsed.command \notin {COMMANDS.RESET, COMMANDS.CLEAR, COMMANDS.HELP}
    /\ UNCHANGED parentVars

\* handleSubmit of the composer, on its own state.
submitComposer ==
    LET trimmedMessage == trim(inputMessage)
    IN  IF Falsy(trimmedMessage) \/ isLoading
        THEN UNCHANGED <<icVars, uiVars>>
        ELSE /\ onSendMessage(trimmedMessage)
             /\ inputMessage' = <<>>
             /\ UNCHANGED <<showSuggestions, suggestions, selectedSuggestionIndex>>

handleChange(newMessage) ==
    /\ inputMessage' = newMessage
    /\ IF isCommand(newMessage)
       THEN LET cmdSuggestions == getCommandSuggestions(newMessage)
            IN  /\ suggestions' = cmdSuggestions
                /\ showSuggestions' = (Len(cmdSuggestions) > 0)
                /\ selectedSuggestionIndex' = 0
       ELSE /\ showSuggestions' = FALSE
            /\ UNCHANGED <<suggestions, selectedSuggestionIndex>>
    /\ UNCHANGED <<sent, uiVars>>

handleSuggestionSelect(suggestion) ==
    /\ inputMessage' = suggestion.display \o <<" ">>
    /\ showSuggestions' = FALSE
    /\ UNCHANGED <<suggestions, selectedSuggestionIndex, sent, uiVars>>

\* ArrowDown moving past the last entry instead of wrapping to the first.
arrowDown_withoutWrap(prev, length) == prev + 1

\* The state updaters of ArrowDown and ArrowUp; indices count from 0.
arrowDown(prev, length) == IF prev < length - 1 THEN prev + 1 ELSE 0

arrowUp(prev, length) == IF prev > 0 THEN prev - 1 ELSE length - 1

\* handleKeyDown in which Enter submits also while the dropdown is shown.
handleKeyDown_enterAlwaysSubmits(key, shiftKey) ==
    IF showSuggestions /\ Len(suggestions) > 0 /\ key = "ArrowDown"
    THEN /\ selectedSuggestionIndex' = arrowDown(selectedSuggestionIndex, Len(suggestions))
         /\ UNCHANGED <<inputMessage, showSuggestions, suggestions, sent, uiVars>>
    ELSE IF showSuggestions /\ Len(suggestions) > 0 /\ key = "ArrowUp"
    THEN /\ selectedSuggestionIndex' = arrowUp(selectedSuggestionIndex, Len(suggestions))
         /\ UNCHANGED <<inputMessage, showSuggestions, suggestions, sent, uiVars>>
    ELSE IF showSuggestions /\ Len(suggestions) > 0 /\ key = "Escape"
    THEN /\ showSuggestions' = FALSE
         /\ UNCHANGED <<inputMessage, suggestions, selectedSuggestionIndex, sent, uiVars>>
    ELSE IF key = "Enter" /\ ~shiftKey
    THEN submitComposer
    ELSE UNCHANGED <<icVars, uiVars>>

handleKeyDown(key, shiftKey) ==
    IF showSuggestions /\ Len(suggestions) > 0 /\ key = "ArrowDown"
    THEN /\ selectedSuggestionIndex' = arrowDown(selectedSuggestionIndex, Len(suggestions))
         /\ UNCHANGED <<inputMessage, showSuggestions, suggestions, sent, uiVars>>
    ELSE IF showSuggestions /\ Len(suggestions) > 0 /\ key = "ArrowUp"
    THEN /\ selectedSuggestionIndex' = arrowUp(selectedSuggestionIndex, Len(suggestions))
         /\ UNCHANGED <<inputMessage, showSuggestions, suggestions, sent, uiVars>>
    ELSE IF showSuggestions /\ Len(suggestions) > 0 /\ key = "Escape"
    THEN /\ showSuggestions' = FALSE
         /\ UNCHANGED <<inputMessage, suggestions, selectedSuggestionIndex, sent, uiVars>>
    ELSE IF showSuggestions /\ Len(suggestions) > 0 /\ key = "Enter" /\ ~shiftKey
    THEN IF selectedSuggestionIndex + 1 \in DOMAIN suggestions
         THEN handleSuggestionSelect(suggestions[selectedSuggestionIndex + 1])
         ELSE UNCHANGED <<icVars, uiVars>>
    ELSE IF key = "Enter" /\ ~shiftKey
    THEN submitComposer
    ELSE UNCHANGED <<icVars, uiVars>>

\* The textarea is disabled while isLoading: no change and no key event.
Type == ~isLoading /\ \E newMessage \in TypedTexts : handleChange(newMessage)

KeyDown == ~isLoading /\ \E key \in Keys, shiftKey \in BOOLEAN : handleKeyDown(key, shiftKey)

\* The send button, enabled when there is text and no reply is awaited.
ClickSend == ~Falsy(trim(inputMessage)) /\ ~isLoading /\ submitComposer

\* The parent's request settles and it passes isLoading = false again.
ParentSettles ==
    /\ isLoading
    /\ isLoading' = FALSE
    /\ UNCHANGED <<icVars, parentVars>>

\* ------------------------------------------------------------------ calls
VARIABLES fn, arg, arg2, ret

fnVars == <<fn, arg, arg2, ret>>

Alphabet == {"/", " ", "c", "A"}

AlphabetStrings == UNION {[1..k -> Alphabet] : k \in 0..MaxLen}

\* Inputs in the style of the repository's own examples.
ExampleInputs ==
    {<<"/", "c", "a", "l", "c", " ", "5", " ", "+", " ", "3">>,
     <<"/", "C", "A", "L", "C">>,
     <<" ", " ", "/", "c", "a", "l", "c">>,
     <<"/", "c", "a", "l", "c", " ", " ", " ", "5", " ", " ", "+", "\t", "3", " ">>,
     <<"\t", "/", "P", "r", "o", "d", "u", "c", "t", "s", " ", " ", "t", "u", "m", "b", "l", "e", "r", "\n">>,
     <<"/", "o", "u", "t", "l", "e", "t", "s", " ", "K", "u", "a", "l", "a", " ", "L", "u", "m", "p", "u", "r">>,
     <<"/", "h", "e", "l", "p">>,
     <<"/", "r", "e", "s", "e", "t">>,
     <<"/", "u", "n", "k", "n", "o", "w", "n", " ", "x">>,
     <<"h", "e", "l", "l", "o">>}

CommandNames == {COMMANDS[k] : k \in DOMAIN COMMANDS}

RECURSIVE Prefixes(_)
Prefixes(s) == IF s = <<>> THEN {<<>>} ELSE {s} \cup Prefixes(SubSeq(s, 1, Len(s) - 1))



\* What a user may have typed so far when completion is asked for.
toUpperCase(s) ==
    [i \in 1..Len(s) |->
        IF \E k \in 1..Len(LowerCaseLetters) : LowerCaseLetters[k] = s[i]
        THEN UpperCaseLetters[CHOOSE k \in 1..Len(LowerCaseLetters) : LowerCaseLetters[k] = s[i]]
        ELSE s[i]]

SuggestionInputs ==
    UNION {{<<"/">> \o p, <<" ", "/">> \o p, p, <<"/">> \o toUpperCase(p),
            <<"/">> \o (IF p = <<>> THEN p ELSE toUpperCase(<<Head(p)>>) \o Tail(p))} :
           p \in UNION {Prefixes(n) : n \in CommandNames}}

CommandInputs ==
    CommandNames \cup {<<>>, <<"u", "n", "k", "n", "o", "w", "n">>, <<"C", "A", "L", "C">>, <<"c", "a", "l", "c", "s">>}

ArgInputs ==
    {<<>>, <<"5", " ", "+", " ", "3">>, <<"t", "u", "m", "b", "l", "e", "r">>, <<"K", "u", "a", "l", "a", " ", "L", "u", "m", "p", "u", "r">>}

ReplyWords ==
    {<<"T", "h", "e", " ", "r", "e", "s", "u", "l", "t", " ", "i", "s">>, <<"4", "2">>, <<"R", "E", "S", "U", "L", "T", " ", "5">>,
     <<"P", "r", "o", "d", "u", "c", "t">>, <<"t", "u", "m", "b", "l", "e", "r", "s">>, <<"b", "o", "t", "t", "l", "e">>, <<"G", "l", "a", "s", "s">>,
     <<"O", "u", "t", "l", "e", "t", "s">>, <<"l", "o", "c", "a", "t", "i", "o", "n">>, <<"a", "d", "d", "r", "e", "s", "s">>, <<"D", "r", "i", "v", "e", "-", "T", "h", "r", "o", "u", "g", "h">>,
     <<"H", "e", "l", "l", "o", " ", "t", "h", "e", "r", "e">>}

RECURSIVE Phrases(_)
Phrases(n) ==
    IF n = 0 THEN {<<>>}
    ELSE Phrases(n - 1) \cup
         {IF p = <<>> THEN w ELSE p \o <<" ">> \o w : p \in Phrases(n - 1), w \in ReplyWords}

FnInputs ==
    {NULL} \cup AlphabetStrings \cup ExampleInputs \cup SuggestionInputs
    \cup CommandInputs \cup Phrases(MaxWords)

Unset == "unset"

FnInit ==
    /\ UiInit
    /\ IcInit
    /\ fn = "none"
    /\ arg \in FnInputs
    /\ arg2 = Unset
    /\ ret = Unset

CallIsCommand ==
    /\ fn' = "isCommand"
    /\ ret' = isCommand(arg)
    /\ arg2' = Unset
    /\ UNCHANGED arg

CallParseCommand ==
    /\ fn' = "parseCommand"
    /\ ret' = parseCommand(arg)
    /\ arg2' = Unset
    /\ UNCHANGED arg

CallGetCommandSuggestions ==
    /\ fn' = "getCommandSuggestions"
    /\ ret' = getCommandSuggestions(arg)
    /\ arg2' = Unset
    /\ UNCHANGED arg

CallCommandToMessage ==
    /\ \E args \in ArgInputs :
         /\ arg2' = args
         /\ ret' = commandToMessage(arg, args)
    /\ fn' = "commandToMessage"
    /\ UNCHANGED arg

CallGetHelpMessage ==
    /\ fn' = "getHelpMessage"
    /\ ret' = getHelpMessage
    /\ arg2' = Unset
    /\ UNCHANGED arg

CallDetectToolUsed ==
    /\ fn' = "detectToolUsed"
    /\ ret' = detectToolUsed(arg)
    /\ arg2' = Unset
    /\ UNCHANGED arg

\* MessageList rendering the bubble of a message with text arg.
CallMessageBubble ==
    /\ \E sender \in {"user", "bot"} :
         /\ arg2' = sender
         /\ ret' = MessageListBubble([message |-> arg, sender |-> sender])
    /\ fn' = "MessageBubble"
    /\ UNCHANGED arg

FnNext ==
    \/ CallIsCommand /\ UNCHANGED <<uiVars, icVars>>
    \/ CallParseCommand /\ UNCHANGED <<uiVars, icVars>>
    \/ CallGetCommandSuggestions /\ UNCHANGED <<uiVars, icVars>>
    \/ CallCommandToMessage /\ UNCHANGED <<uiVars, icVars>>
    \/ CallGetHelpMessage /\ UNCHANGED <<uiVars, icVars>>
    \/ CallDetectToolUsed /\ UNCHANGED <<uiVars, icVars>>
    \/ CallMessageBubble /\ UNCHANGED <<uiVars, icVars>>

vars == <<messages, isLoading, sessionId, error, localStorage, chatRequests,
          historyRequests, pendingDeletes, fn, arg, arg2, ret, inputMessage,
          showSuggestions, suggestions, selectedSuggestionIndex, sent>>

\* The calls of the pure functions, on every input of FnInputs.
SpecParser == FnInit /\ [][FnNext]_vars

Init ==
    /\ UiInit
    /\ IcInit
    /\ fn = "none"
    /\ arg = NULL
    /\ arg2 = Unset
    /\ ret = Unset

Next ==
    \/ Submit /\ UNCHANGED <<fnVars, icVars>>
    \/ ClickClearChat /\ UNCHANGED <<fnVars, icVars>>
    \/ DeleteResolves /\ UNCHANGED <<fnVars, icVars>>
    \/ DeleteRejects /\ UNCHANGED <<fnVars, icVars>>
    \/ ChatResolves /\ UNCHANGED <<fnVars, icVars>>
    \/ ChatHttpError /\ UNCHANGED <<fnVars, icVars>>
    \/ ChatRejects /\ UNCHANGED <<fnVars, icVars>>
    \/ HistoryResolves /\ UNCHANGED <<fnVars, icVars>>
    \/ HistoryFails /\ UNCHANGED <<fnVars, icVars>>
    \/ DismissError /\ UNCHANGED <<fnVars, icVars>>
    \/ Reload /\ UNCHANGED <<fnVars, icVars>>

\* The chat window in use.
Spec == Init /\ [][Next]_vars

ComposerNext ==
    \/ Type /\ UNCHANGED fnVars
    \/ KeyDown /\ UNCHANGED fnVars
    \/ ClickSend /\ UNCHANGED fnVars
    \/ ParentSettles /\ UNCHANGED fnVars

\* The composer in use, its parent seen through the two props.
SpecComposer == Init /\ [][ComposerNext]_vars

\* A chat POST in flight settles: the fetch resolves, with an OK status or
\* not, or rejects.
ChatSettles == (ChatResolves \/ ChatHttpError \/ ChatRejects) /\ UNCHANGED <<fnVars, icVars>>

\* The program on a network where every chat POST eventually settles.
SpecLive == Init /\ [][Next]_vars /\ WF_vars(ChatSettles)

\* ------------------------------------------------------------------ claims
\* The tokens of a string: its maximal runs of characters that are not
\* whitespace, in order.
RECURSIVE Tokens(_)
Tokens(s) ==
    LET starts == {i \in 1..Len(s) : ~IsWhitespace(s[i])}
    IN  IF starts = {} THEN <<>>
        ELSE LET b == CHOOSE i \in starts : \A j \in starts : i <= j
                 stops == {i \in b..Len(s) : i = Len(s) \/ IsWhitespace(s[i + 1])}
                 e == CHOOSE i \in stops : \A j \in stops : i <= j
             IN  <<SubSeq(s, b, e)>> \o Tokens(SubSeq(s, e + 1, Len(s)))

RECURSIVE SpaceJoined(_)
SpaceJoined(tokens) ==
    IF tokens = <<>> THEN <<>>
    ELSE Head(tokens) \o (IF Len(tokens) = 1 THEN <<>> ELSE <<" ">>) \o SpaceJoined(Tail(tokens))

\* c is the lower-case form of the character d.
IsLowerCaseOf(c, d) ==
    IF \E i \in 1..26 : UpperCaseLetters[i] = d
    THEN \E i \in 1..26 : UpperCaseLetters[i] = d /\ LowerCaseLetters[i] = c
    ELSE c = d

LowerCased(s, t) == Len(s) = Len(t) /\ \A i \in 1..Len(s) : IsLowerCaseOf(s[i], t[i])

\* The text that follows the '/' of a command input.
AfterSlash(s) == Tail(trim(s))

\* C1: for every input s, parseCommand(s) is null when isCommand(s) is false,
\* and otherwise {command, args} with command the lower-cased first
\* whitespace-delimited token after the leading '/', and args the remaining
\* tokens joined by one space ('' when there are none).
C1_ParseCommandTokens ==
    fn = "parseCommand" =>
        IF ~isCommand(arg) THEN ret = NullCommand
        ELSE LET tokens == Tokens(AfterSlash(arg))
             IN  tokens # <<>> =>
                    /\ ~ret.isNull
                    /\ LowerCased(ret.command, tokens[1])
                    /\ ret.args = SpaceJoined(Tail(tokens))

\* C1 restricted to the inputs whose '/' is directly followed by the command
\* token: there parseCommand does what C1 says.
ParseCommandTokensWhenNamed ==
    (fn = "parseCommand" /\ isCommand(arg)
        /\ AfterSlash(arg) # <<>> /\ ~IsWhitespace(AfterSlash(arg)[1])) =>
        LET tokens == Tokens(AfterSlash(arg))
        IN  /\ ~ret.isNull
            /\ LowerCased(ret.command, tokens[1])
            /\ ret.args = SpaceJoined(Tail(tokens))

ParseCommandTokensWhenNamedSeen ==
    /\ fn = "parseCommand"
    /\ arg = <<"/", "c", "a", "l", "c", " ", " ", " ", "5", " ", " ", "+", "\t", "3", " ">>
    /\ ret = ParsedCommand(<<"c", "a", "l", "c">>, <<"5", " ", "+", " ", "3">>)

\* C2: parseCommand returns null for a lone '/', with or without whitespace
\* around it; it returns no ParsedCommand with an empty command for it.
C2_LoneSlashIsNull ==
    (fn = "parseCommand" /\ arg # NULL /\ trim(arg) = <<"/">>) => ret = NullCommand

\* The reference table of C3: the aliases of each action, the text put
\* before non-empty args, and the message for empty args.
C3_Table ==
    {[names |-> {<<"c", "a", "l", "c">>, <<"c", "a", "l", "c", "u", "l", "a", "t", "e">>},
      prefix |-> <<"C", "a", "l", "c", "u", "l", "a", "t", "e", " ">>,
      default |-> <<"P", "l", "e", "a", "s", "e", " ", "p", "r", "o", "v", "i", "d", "e", " ", "a", " ", "c", "a", "l", "c", "u", "l", "a", "t", "i", "o", "n">>],
     [names |-> {<<"p", "r", "o", "d", "u", "c", "t", "s">>, <<"p", "r", "o", "d", "u", "c", "t">>},
      prefix |-> <<"S", "h", "o", "w", " ", "m", "e", " ">>,
      default |-> <<"S", "h", "o", "w", " ", "m", "e", " ", "a", "l", "l", " ", "p", "r", "o", "d", "u", "c", "t", "s">>],
     [names |-> {<<"o", "u", "t", "l", "e", "t", "s">>, <<"o", "u", "t", "l", "e", "t">>, <<"l", "o", "c", "a", "t", "i", "o", "n", "s">>},
      prefix |-> <<"F", "i", "n", "d", " ", "o", "u", "t", "l", "e", "t", "s", " ", "i", "n", " ">>,
      default |-> <<"S", "h", "o", "w", " ", "m", "e", " ", "a", "l", "l", " ", "o", "u", "t", "l", "e", "t", "s">>]}

\* C3: for every command of the action set and every args string,
\* commandToMessage(command, args) is the table's prefix followed by args
\* when args is non-empty and the table's fixed message otherwise; aliases
\* of one action give the same result.
C3_CommandToMessageTable ==
    fn = "commandToMessage" =>
        \A row \in C3_Table :
            arg \in row.names =>
                /\ ret = (IF arg2 # <<>> THEN row.prefix \o arg2 ELSE row.default)
                /\ \A alias \in row.names : commandToMessage(alias, arg2) = ret

C3_AliasWithArgsSeen ==
    /\ fn = "commandToMessage"
    /\ arg = <<"l", "o", "c", "a", "t", "i", "o", "n", "s">>
    /\ arg2 = <<"K", "u", "a", "l", "a", " ", "L", "u", "m", "p", "u", "r">>
    /\ ret = <<"F", "i", "n", "d", " ", "o", "u", "t", "l", "e", "t", "s", " ", "i", "n", " ", "K", "u", "a", "l", "a", " ", "L", "u", "m", "p", "u", "r">>

C4_KnownActions ==
    {<<"c", "a", "l", "c">>, <<"c", "a", "l", "c", "u", "l", "a", "t", "e">>, <<"p", "r", "o", "d", "u", "c", "t", "s">>, <<"p", "r", "o", "d", "u", "c", "t">>,
     <<"o", "u", "t", "l", "e", "t", "s">>, <<"o", "u", "t", "l", "e", "t">>, <<"l", "o", "c", "a", "t", "i", "o", "n", "s">>, <<"h", "e", "l", "p">>}

\* C4: commandToMessage returns null for every command name outside the
\* known action set, whatever the args: for 'reset', 'clear', '' and any
\* other name.
C4_UnknownCommandIsNull ==
    (fn = "commandToMessage" /\ arg \notin C4_KnownActions) => ret = NULL

C4_ResetIsNullSeen ==
    /\ fn = "commandToMessage"
    /\ arg = <<"r", "e", "s", "e", "t">>
    /\ arg2 = <<"t", "u", "m", "b", "l", "e", "r">>
    /\ ret = NULL

\* The word occurs in the text when case is ignored (the word is lower-case).
OccursIgnoringCase(text, word) ==
    \E i \in 0..(Len(text) - Len(word)) :
        \A k \in 1..Len(word) : IsLowerCaseOf(word[k], text[i + k])

OccursAnyIgnoringCase(text, words) == \E w \in words : OccursIgnoringCase(text, w)

HasDigit(text) ==
    \E i \in 1..Len(text), d \in 0..9 : text[i] = ToString(d)

C6_Rule1(text) == OccursIgnoringCase(text, <<"r", "e", "s", "u", "l", "t">>) /\ HasDigit(text)

C6_Rule2(text) ==
    OccursAnyIgnoringCase(text, {<<"p", "r", "o", "d", "u", "c", "t">>, <<"t", "u", "m", "b", "l", "e", "r">>, <<"b", "o", "t", "t", "l", "e">>, <<"g", "l", "a", "s", "s">>})

C6_Rule3(text) ==
    OccursAnyIgnoringCase(text, {<<"o", "u", "t", "l", "e", "t">>, <<"l", "o", "c", "a", "t", "i", "o", "n">>, <<"a", "d", "d", "r", "e", "s", "s">>, <<"d", "r", "i", "v", "e", "-", "t", "h", "r", "o", "u", "g", "h">>})

\* C6: detectToolUsed(message) is the first-match-wins classification of the
\* text, case ignored: calculator if it contains 'result' and a digit; else
\* products if it contains 'product', 'tumbler', 'bottle' or 'glass'; else
\* outlets if it contains 'outlet', 'location', 'address' or
\* 'drive-through'; else none.
C6_DetectToolFirstMatchWins ==
    (fn = "detectToolUsed" /\ arg # NULL) =>
        /\ C6_Rule1(arg) => ret = "calculator"
        /\ (~C6_Rule1(arg) /\ C6_Rule2(arg)) => ret = "products"
        /\ (~C6_Rule1(arg) /\ ~C6_Rule2(arg) /\ C6_Rule3(arg)) => ret = "outlets"
        /\ (~C6_Rule1(arg) /\ ~C6_Rule2(arg) /\ ~C6_Rule3(arg)) => ret = "null"

C6_CalculatorBeatsProductsSeen ==
    /\ fn = "detectToolUsed"
    /\ arg = <<"R", "E", "S", "U", "L", "T", " ", "5", " ", "t", "u", "m", "b", "l", "e", "r", "s">>
    /\ ret = "calculator"

\* C7: detectToolUsed with empty or missing (null, undefined) message text
\* returns the classification none and throws nothing.
C7_DetectToolTotal ==
    (fn = "detectToolUsed" /\ (arg = NULL \/ arg = <<>>)) => ret = "null"

\* The registry entries whose name starts with the lower-cased partial text.
C8_Matching(partial) ==
    {j \in 1..Len(COMMAND_DESCRIPTIONS) :
        LET name == COMMAND_DESCRIPTIONS[j].name
        IN  /\ Len(partial) <= Len(name)
            /\ \A k \in 1..Len(partial) : IsLowerCaseOf(name[k], partial[k])}

\* C8: for an input that starts with '/' and is longer than '/',
\* getCommandSuggestions returns exactly the registry entries whose name
\* starts with the lower-cased text after the '/', in registry order; for an
\* input that does not start with '/' (empty, null, or with whitespace before
\* the '/') it returns the empty sequence.
C8_SuggestionsArePrefixMatches ==
    fn = "getCommandSuggestions" =>
        IF arg = NULL \/ arg = <<>> \/ arg[1] # "/" THEN ret = <<>>
        ELSE Len(arg) > 1 =>
               LET matching == C8_Matching(Tail(arg))
               IN  /\ Len(ret) = Cardinality(matching)
                   /\ \A i \in 1..Len(ret) :
                        \E j \in matching :
                            /\ Cardinality({m \in matching : m <= j}) = i
                            /\ ret[i].command = COMMAND_DESCRIPTIONS[j].name
                            /\ ret[i].description = COMMAND_DESCRIPTIONS[j].description
                            /\ ret[i].display = <<"/">> \o COMMAND_DESCRIPTIONS[j].name

C8_UpperCasePrefixSeen ==
    /\ fn = "getCommandSuggestions"
    /\ arg = <<"/", "C", "a">>
    /\ Len(ret) = 1
    /\ ret[1].command = <<"c", "a", "l", "c">>

C8_LeadingWhitespaceSeen ==
    /\ fn = "getCommandSuggestions"
    /\ arg = <<" ", "/", "c", "a", "l", "c">>
    /\ ret = <<>>

\* C9: getCommandSuggestions('/') is the full menu: the five commands calc,
\* products, outlets, reset, help in that order, each with display '/' +
\* name and its description.
C9_FullMenu ==
    (fn = "getCommandSuggestions" /\ arg = <<"/">>) =>
        ret = <<[command |-> <<"c", "a", "l", "c">>, display |-> <<"/", "c", "a", "l", "c">>,
                 description |-> <<"P", "e", "r", "f", "o", "r", "m", " ", "c", "a", "l", "c", "u", "l", "a", "t", "i", "o", "n", "s", " ", "-", " ", "e", ".", "g", ".", ",", " ", "/", "c", "a", "l", "c", " ", "2", "5", " ", "*", " ", "4">>],
                [command |-> <<"p", "r", "o", "d", "u", "c", "t", "s">>, display |-> <<"/", "p", "r", "o", "d", "u", "c", "t", "s">>,
                 description |-> <<"S", "e", "a", "r", "c", "h", " ", "p", "r", "o", "d", "u", "c", "t", "s", " ", "-", " ", "e", ".", "g", ".", ",", " ", "/", "p", "r", "o", "d", "u", "c", "t", "s", " ", "t", "u", "m", "b", "l", "e", "r">>],
                [command |-> <<"o", "u", "t", "l", "e", "t", "s">>, display |-> <<"/", "o", "u", "t", "l", "e", "t", "s">>,
                 description |-> <<"F", "i", "n", "d", " ", "o", "u", "t", "l", "e", "t", "s", " ", "-", " ", "e", ".", "g", ".", ",", " ", "/", "o", "u", "t", "l", "e", "t", "s", " ", "K", "u", "a", "l", "a", " ", "L", "u", "m", "p", "u", "r">>],
                [command |-> <<"r", "e", "s", "e", "t">>, display |-> <<"/", "r", "e", "s", "e", "t">>,
                 description |-> <<"C", "l", "e", "a", "r", " ", "c", "o", "n", "v", "e", "r", "s", "a", "t", "i", "o", "n", " ", "h", "i", "s", "t", "o", "r", "y">>],
                [command |-> <<"h", "e", "l", "p">>, display |-> <<"/", "h", "e", "l", "p">>,
                 description |-> <<"S", "h", "o", "w", " ", "a", "v", "a", "i", "l", "a", "b", "l", "e", " ", "c", "o", "m", "m", "a", "n", "d", "s">>]>>

C9_FullMenuSeen ==
    /\ fn = "getCommandSuggestions"
    /\ arg = <<"/">>
    /\ Len(ret) = 5

C10_TenNames ==
    {<<"c", "a", "l", "c">>, <<"c", "a", "l", "c", "u", "l", "a", "t", "e">>, <<"p", "r", "o", "d", "u", "c", "t", "s">>, <<"p", "r", "o", "d", "u", "c", "t">>, <<"o", "u", "t", "l", "e", "t", "s">>,
     <<"o", "u", "t", "l", "e", "t">>, <<"l", "o", "c", "a", "t", "i", "o", "n", "s">>, <<"r", "e", "s", "e", "t">>, <<"c", "l", "e", "a", "r">>, <<"h", "e", "l", "p">>}

RegistryNames == {COMMAND_DESCRIPTIONS[i].name : i \in 1..Len(COMMAND_DESCRIPTIONS)}

\* C10 as stated: the registry that suggestions and help text read holds,
\* whenever one of them reads it, every one of the ten names, unique and
\* lower-case.
C10_RegistryHasTenNames ==
    fn \in {"getCommandSuggestions", "getHelpMessage"} =>
        /\ C10_TenNames \subseteq RegistryNames
        /\ Cardinality(RegistryNames) = Len(COMMAND_DESCRIPTIONS)
        /\ \A n \in RegistryNames : LowerCased(n, n)

\* C10 amended: the ten names are the values of COMMANDS, unique and
\* lower-case; the registry that suggestions and help text read holds five
\* of them, calc, products, outlets, reset and help, each once, and
\* suggestions name no other command.
C10_NamesAndRegistry ==
    /\ {COMMANDS[k] : k \in DOMAIN COMMANDS} = C10_TenNames
    /\ Cardinality(DOMAIN COMMANDS) = Cardinality(C10_TenNames)
    /\ \A n \in C10_TenNames : LowerCased(n, n)
    /\ [i \in 1..Len(COMMAND_DESCRIPTIONS) |-> COMMAND_DESCRIPTIONS[i].name]
         = <<<<"c", "a", "l", "c">>, <<"p", "r", "o", "d", "u", "c", "t", "s">>, <<"o", "u", "t", "l", "e", "t", "s">>, <<"r", "e", "s", "e", "t">>, <<"h", "e", "l", "p">>>>
    /\ fn = "getCommandSuggestions" =>
         \A i \in 1..Len(ret) : ret[i].command \in RegistryNames \cap C10_TenNames

C10_ClearHasNoSuggestionSeen ==
    /\ fn = "getCommandSuggestions"
    /\ arg = <<"/", "c", "l">>
    /\ ret = <<>>

\* The text is a slash command for which the translator returns null.
C5_Untranslated(text) ==
    LET parsed == parseCommand(text)
    IN  ~parsed.isNull /\ commandToMessage(parsed.command, parsed.args) = NULL

\* The composer texts that are such commands once trimmed.
C5_UntranslatedTexts == {text \in ComposerTexts : C5_Untranslated(trim(text))}

\* C5 as stated: when the user sends a slash command for which the
\* translator returns null, handleSendMessage issues no chat POST for it.
C5_UnknownCommandNotForwarded ==
    [][\A text \in C5_UntranslatedTexts :
          (~isLoading /\ handleSubmit(text)) => chatRequests' = chatRequests]_vars

\* C5 amended: when the user sends a slash command with an unknown name
\* (the translator returns null and the command is not reset or clear),
\* handleSendMessage forwards the input as typed: it appends the trimmed
\* input as the user message and issues one chat POST whose message is that
\* text.
C5_UnknownCommandForwardedLiterally ==
    [][\A text \in C5_UntranslatedTexts :
          (/\ ~isLoading
           /\ parseCommand(trim(text)).command \notin {<<"r", "e", "s", "e", "t">>, <<"c", "l", "e", "a", "r">>}
           /\ handleSubmit(text))
              => /\ messages' = Append(messages, userMessage(trim(text)))
                 /\ chatRequests' # chatRequests
                 /\ chatRequests' =
                      chatRequests \cup {[message |-> trim(text), session_id |-> sessionId]}
                 /\ isLoading']_vars

C5_UnknownCommandInFlightSeen ==
    /\ isLoading
    /\ messages # <<>>
    /\ messages[Len(messages)] = userMessage(<<"/", "f", "o", "o">>)
    /\ \E req \in chatRequests : req.message = <<"/", "f", "o", "o">>

\* ---------------------------------------------------------------------
\* C11: the layout of the help text.

RECURSIVE C11_Lines(_)
\* The lines of a text: the pieces between its newline characters.
C11_Lines(text) ==
    IF \A i \in 1..Len(text) : text[i] # "\n" THEN <<text>>
    ELSE LET i == CHOOSE i \in 1..Len(text) :
                     text[i] = "\n" /\ \A j \in 1..(i - 1) : text[j] # "\n"
         IN  <<SubSeq(text, 1, i - 1)>> \o C11_Lines(SubSeq(text, i + 1, Len(text)))

C11_LineOf(entry) ==
    <<"BULLET", " ", "/">> \o entry.name \o <<" ", "-", " ">> \o entry.description

\* C11: the help text is the header line 'Available commands:' followed by
\* exactly one line per registry command that has a description, in
\* registry order, each of the form BULLET /<name> - <description>, the
\* lines joined by newlines; it has no line for a command name that has no
\* description.
C11_HelpTextLines ==
    fn = "getHelpMessage" =>
        LET lines == C11_Lines(ret)
        IN  /\ Len(lines) = 1 + Len(COMMAND_DESCRIPTIONS)
            /\ lines[1] = <<"A", "v", "a", "i", "l", "a", "b", "l", "e", " ", "c", "o", "m", "m", "a", "n", "d", "s", ":">>
            /\ \A i \in 1..Len(COMMAND_DESCRIPTIONS) :
                 lines[i + 1] = C11_LineOf(COMMAND_DESCRIPTIONS[i])
            /\ \A name \in CommandNames \ RegistryNames :
                 \A i \in 1..Len(lines) :
                    ~startsWith(lines[i], <<"BULLET", " ", "/">> \o name \o <<" ">>)

\* The help text has been computed; its last line is the one of 'help'
\* and the alias 'clear', a command name, has no description.
C11_HelpTextSeen ==
    /\ fn = "getHelpMessage"
    /\ C11_Lines(ret)[Len(C11_Lines(ret))] = <<"BULLET">> \o <<" ", "/", "h", "e", "l", "p", " ", "-", " ", "S", "h", "o", "w", " ", "a", "v", "a", "i", "l", "a", "b", "l", "e", " ", "c", "o", "m", "m", "a", "n", "d", "s">>
    /\ <<"c", "l", "e", "a", "r">> \in CommandNames \ RegistryNames

\* ---------------------------------------------------------------------
\* C12: /help is answered locally.

\* The composer texts that parse, once trimmed, to the command 'help'.
C12_HelpTexts ==
    {text \in ComposerTexts :
        LET parsed == parseCommand(trim(text))
        IN  ~parsed.isNull /\ parsed.command = <<"h", "e", "l", "p">>}

\* C12: when the user sends an input that parses to the command 'help',
\* handleSendMessage appends exactly two messages, the user's text and then
\* a bot message equal to the help text, issues no chat POST, and leaves
\* isLoading and sessionId unchanged.
C12_HelpAnsweredLocally ==
    [][\A text \in C12_HelpTexts :
          (~isLoading /\ handleSubmit(text))
              => /\ messages' = messages \o
                       <<[message |-> trim(text), sender |-> "user"],
                         [message |-> getHelpMessage, sender |-> "bot"]>>
                 /\ chatRequests' = chatRequests
                 /\ isLoading' = isLoading
                 /\ sessionId' = sessionId]_vars

\* A conversation consisting of one /help exchange: nothing was sent, no
\* session exists and no reply is awaited.
C12_HelpExchangeSeen ==
    /\ Len(messages) = 2
    /\ messages[1] = [message |-> <<"/", "h", "e", "l", "p">>, sender |-> "user"]
    /\ messages[2] = [message |-> getHelpMessage, sender |-> "bot"]
    /\ chatRequests = {}
    /\ ~isLoading
    /\ sessionId = NULL

\* ---------------------------------------------------------------------
\* C13: /reset and /clear run the local clear-conversation action.

\* The composer texts that parse, once trimmed, to 'reset' or 'clear'.
C13_ClearTexts ==
    {text \in ComposerTexts :
        LET parsed == parseCommand(trim(text))
        IN  ~parsed.isNull /\ parsed.command \in {<<"r", "e", "s", "e", "t">>, <<"c", "l", "e", "a", "r">>}}

\* C13: when the user sends an input that parses to 'reset' or 'clear',
\* handleSendMessage runs the clear-conversation action (the user declines
\* and nothing is cleared, or a session exists and its DELETE is issued, or
\* no session exists and the conversation is cleared at once); nothing the
\* translator would produce is used: no message is appended and no chat
\* POST is issued.
C13_ClearIntercepted ==
    [][\A text \in C13_ClearTexts :
          (~isLoading /\ handleSubmit(text))
              => /\ \/ UNCHANGED <<messages, sessionId, localStorage, pendingDeletes>>
                    \/ /\ sessionId # NULL
                       /\ pendingDeletes' = pendingDeletes + 1
                       /\ UNCHANGED <<messages, sessionId, localStorage>>
                    \/ /\ sessionId = NULL
                       /\ messages' = <<>>
                       /\ sessionId' = NULL
                       /\ localStorage' = [chatSessionId |-> NULL, chatMessages |-> NULL]
                       /\ UNCHANGED pendingDeletes
                 /\ Len(messages') <= Len(messages)
                 /\ chatRequests' = chatRequests
                 /\ isLoading' = isLoading]_vars

\* A conversation without a session (a /help exchange only) in which
\* sending /clear, confirmed, empties the list.
C13_ClearCommandClearsSeen ==
    /\ ~isLoading
    /\ sessionId = NULL
    /\ Len(messages) = 2
    /\ ENABLED (/\ handleSubmit(<<"/", "c", "l", "e", "a", "r">>)
                /\ messages' = <<>>
                /\ chatRequests' = chatRequests
                /\ UNCHANGED <<fnVars, icVars>>)

\* ---------------------------------------------------------------------
\* C14: a confirmed clear.

\* A clear the user confirmed runs to its end: at once when there is no
\* session, and otherwise when the DELETE it awaits has settled.
C14_ConfirmedClearEnds ==
    \/ Falsy(sessionId) /\ handleClearChat(TRUE, error)
    \/ Falsy(sessionId) /\ handleClearChat(TRUE, NULL)
    \/ DeleteResolves
    \/ DeleteRejects

\* C14: whenever the user confirms a clear (trash button, /reset or
\* /clear), afterwards messages is empty, the session id is null and both
\* localStorage keys are removed, from every reachable state and also when
\* the backend is unreachable.
C14_ConfirmedClearClearsAll ==
    [][C14_ConfirmedClearEnds
          => /\ messages' = <<>>
             /\ sessionId' = NULL
             /\ localStorage'.chatSessionId = NULL
             /\ localStorage'.chatMessages = NULL]_vars

\* ---------------------------------------------------------------------
\* C15: persistence across reloads.

\* C15: remounting the component restores exactly the messages that were
\* displayed before the reload and the same session id, after any sequence
\* of sends (backend exchanges, /help replies, error replies).
C15_ReloadRestores ==
    [][Reload => (messages' = messages /\ sessionId' = sessionId)]_vars

\* ---------------------------------------------------------------------
\* C16: the saved messages.

\* C16: whenever messages is non-empty (and the save effect has run),
\* localStorage 'chatMessages' holds the serialisation of the current
\* messages list.
C16_StoreHoldsMessages ==
    Len(messages) > 0 => localStorage.chatMessages = JSONstringify(messages)

\* After a complete exchange following an earlier one, the store holds the
\* serialisation of all the messages displayed.
C16_ExchangeSavedSeen ==
    /\ Len(messages) >= 3
    /\ messages[Len(messages)].sender = "bot"
    /\ ~isLoading
    /\ localStorage.chatMessages = JSONstringify(messages)
    /\ JSONparse(localStorage.chatMessages) = messages

\* ---------------------------------------------------------------------
\* C17: the order of the messages.

\* C17: in every reachable state the messages list alternates user, bot,
\* user, bot starting with a user message, and a user message without a
\* reply can only be the last one, while isLoading is true.
C17_MessagesAlternate ==
    /\ \A i \in 1..Len(messages) :
         messages[i].sender = (IF i % 2 = 1 THEN "user" ELSE "bot")
    /\ Len(messages) % 2 = 1 => isLoading

\* ---------------------------------------------------------------------
\* C18: what the composer sends, and when.

\* C18: the composer sends only a non-empty trimmed text and only while
\* isLoading is false, so that at most one chat POST is outstanding at any
\* time: every POST in flight carries a non-empty text without leading or
\* trailing whitespace, isLoading is true while one is in flight, and there
\* are never two.
C18_AtMostOnePost ==
    /\ Cardinality(chatRequests) <= 1
    /\ chatRequests # {} => isLoading
    /\ \A req \in chatRequests :
         /\ Len(req.message) > 0
         /\ ~IsWhitespace(req.message[1])
         /\ ~IsWhitespace(req.message[Len(req.message)])

\* One POST is in flight, and the composer holds text that would be sent
\* were isLoading false.
C18_SendWhileLoadingRefusedSeen ==
    /\ Cardinality(chatRequests) = 1
    /\ isLoading
    /\ Len(messages) + 2 <= MaxMessages
    /\ ENABLED (handleSubmit(<<"h", "i">>) /\ UNCHANGED uiVars /\ UNCHANGED <<fnVars, icVars>>)

\* ---------------------------------------------------------------------
\* C19: a failed chat POST.

C19_ErrorTexts == {<<"H", "T", "T", "P", " ", "5", "0", "0", ":", " ", "I", "n", "t", "e", "r", "n", "a", "l", " ", "S", "e", "r", "v", "e", "r", " ", "E", "r", "r", "o", "r">>, <<"F", "a", "i", "l", "e", "d", " ", "t", "o", " ", "f", "e", "t", "c", "h">>}

C20_LoadingEnds ==
    /\ [][(chatRequests' \ chatRequests # {}) => isLoading']_vars
    /\ (isLoading ~> ~isLoading)
    /\ [](~isLoading => ENABLED (handleSubmit(<<"h", "i">>) /\ isLoading' /\ UNCHANGED <<fnVars, icVars>>))

\* A POST rejected with a network error and isLoading is false again, no
\* request being in flight.
C20_LoadingEndedAfterNetworkErrorSeen ==
    /\ ~isLoading
    /\ chatRequests = {}
    /\ error = <<"F", "a", "i", "l", "e", "d", " ", "t", "o", " ", "f", "e", "t", "c", "h">>
    /\ Len(messages) >= 2
    /\ messages[Len(messages)].sender = "bot"

\* ---------------------------------------------------------------------
\* C21: sessions are created on the first message and then reused.

\* The chat POSTs issued by a step.
C21_Issued == chatRequests' \ chatRequests

\* The first chat request of a conversation carries a null session_id.
C21_FirstRequestHasNoSession ==
    Len(messages) = 0 => \A req \in C21_Issued : req.session_id = NULL

\* A response carrying a session_id that arrives while none is held is
\* stored in state and in localStorage.
C21_NewSessionStored ==
    \A req \in chatRequests, reply \in BackendReplies, sid \in SessionIds :
        (sessionId = NULL /\ chatResolves(req, reply, sid))
            => (sessionId' = sid /\ localStorage'.chatSessionId = sid)

\* Every later chat request carries the held id, and the held id changes
\* only by a clear.
C21_HeldSessionReused ==
    sessionId # NULL =>
        /\ \A req \in C21_Issued : req.session_id = sessionId
        /\ sessionId' \in {sessionId, NULL}
        /\ sessionId' = NULL => DeleteResolves

\* C21: the first chat request of a conversation carries a null
\* session_id; when a response carrying a session_id arrives while none is
\* held, it is stored in state and in localStorage 'chatSessionId'; every
\* later chat request until the next clear carries exactly that id.
C21_SessionCreatedAndReused ==
    [][C21_FirstRequestHasNoSession /\ C21_NewSessionStored /\ C21_HeldSessionReused]_vars

\* ---------------------------------------------------------------------
\* C22: the user message of a translated command.

\* Slash commands the translator maps to a message, with the text the
\* conversation is to show for them.
C22_Commands ==
    {[text |-> <<"/", "c", "a", "l", "c", " ", "2", "5", " ", "*", " ", "4">>, shown |-> <<"C", "a", "l", "c", "u", "l", "a", "t", "e", " ", "2", "5", " ", "*", " ", "4">>],
     [text |-> <<" ", "/", "C", "a", "l", "c", " ", "5", " ">>, shown |-> <<"C", "a", "l", "c", "u", "l", "a", "t", "e", " ", "5">>],
     [text |-> <<"/", "c", "a", "l", "c", "u", "l", "a", "t", "e", " ", "2", "+", "2">>, shown |-> <<"C", "a", "l", "c", "u", "l", "a", "t", "e", " ", "2", "+", "2">>],
     [text |-> <<"/", "p", "r", "o", "d", "u", "c", "t", "s", " ", "t", "u", "m", "b", "l", "e", "r">>, shown |-> <<"S", "h", "o", "w", " ", "m", "e", " ", "t", "u", "m", "b", "l", "e", "r">>],
     [text |-> <<"/", "p", "r", "o", "d", "u", "c", "t">>, shown |-> <<"S", "h", "o", "w", " ", "m", "e", " ", "a", "l", "l", " ", "p", "r", "o", "d", "u", "c", "t", "s">>],
     [text |-> <<"/", "o", "u", "t", "l", "e", "t", "s", " ", "K", "u", "a", "l", "a", " ", "L", "u", "m", "p", "u", "r">>, shown |-> <<"F", "i", "n", "d", " ", "o", "u", "t", "l", "e", "t", "s", " ", "i", "n", " ", "K", "u", "a", "l", "a", " ", "L", "u", "m", "p", "u", "r">>],
     [text |-> <<"/", "o", "u", "t", "l", "e", "t">>, shown |-> <<"S", "h", "o", "w", " ", "m", "e", " ", "a", "l", "l", " ", "o", "u", "t", "l", "e", "t", "s">>],
     [text |-> <<"/", "l", "o", "c", "a", "t", "i", "o", "n", "s", " ", "K", "L">>, shown |-> <<"F", "i", "n", "d", " ", "o", "u", "t", "l", "e", "t", "s", " ", "i", "n", " ", "K", "L">>]}

\* The text handleSendMessage goes on with for a composer text: the
\* translator's message when the text is a command that has one.
C22_Translated(text) ==
    LET parsed == parseCommand(trim(text))
    IN  IF parsed.isNull THEN NULL ELSE commandToMessage(parsed.command, parsed.args)

\* The composer texts that are calc, products or outlets commands, under
\* any of their names.
C22_TranslatedTexts ==
    {text \in ComposerTexts :
        LET parsed == parseCommand(trim(text))
        IN  /\ ~parsed.isNull
            /\ parsed.command \in {<<"c", "a", "l", "c">>,
                                   <<"c", "a", "l", "c", "u", "l", "a", "t", "e">>,
                                   <<"p", "r", "o", "d", "u", "c", "t", "s">>,
                                   <<"p", "r", "o", "d", "u", "c", "t">>,
                                   <<"o", "u", "t", "l", "e", "t", "s">>,
                                   <<"o", "u", "t", "l", "e", "t">>,
                                   <<"l", "o", "c", "a", "t", "i", "o", "n", "s">>}}

\* C22: for a slash command that the translator maps to a message (calc,
\* products, outlets and their aliases, whose messages are those of the
\* table), sending it appends a user message whose text is the translated
\* text, not the command as typed, and posts that text; and in every step
\* that issues a chat POST, the text of the POST equals the text of the
\* user message the step appends.
C22_ShownTextIsSentText ==
    /\ [](\A c \in C22_Commands :
            ~isLoading => (C22_Translated(c.text) = c.shown /\ c.shown # trim(c.text)))
    /\ [][\A text \in C22_TranslatedTexts :
             (~isLoading /\ handleSubmit(text))
                => /\ messages' = Append(messages,
                                     [message |-> C22_Translated(text), sender |-> "user"])
                   /\ chatRequests' = chatRequests \cup
                        [message : {C22_Translated(text)}, session_id : {sessionId}]]_vars
    /\ [][chatRequests' \ chatRequests # {}
             => \E req \in chatRequests' \ chatRequests :
                   /\ chatRequests' \ chatRequests = {req}
                   /\ messages' = Append(messages,
                                     [message |-> req.message, sender |-> "user"])]_vars

\* The command ' /Calc 5 ' was sent: the list ends with the user message
\* 'Calculate 5' and the POST in flight carries that text.
C22_TranslatedCommandInFlightSeen ==
    /\ isLoading
    /\ Len(messages) > 0
    /\ messages[Len(messages)] = [message |-> <<"C", "a", "l", "c", "u", "l", "a", "t", "e", " ", "5">>, sender |-> "user"]
    /\ \E req \in chatRequests : req.message = <<"C", "a", "l", "c", "u", "l", "a", "t", "e", " ", "5">>

\* ---------------------------------------------------------------------
\* C23: the tool badge.

C23_Labels ==
    [calculator |-> "Calculator", products |-> "Product Search", outlets |-> "Outlet Finder"]

\* C23: a tool badge is rendered for a message exactly when it is a bot
\* message whose classification is calculator, products or outlets, and
\* its label is then 'Calculator', 'Product Search' or 'Outlet Finder'
\* respectively; with the classification none no badge is rendered, and a
\* user message never gets a badge.
C23_BadgeIffClassifiedBotMessage ==
    fn = "MessageBubble" =>
        LET classification == IF arg = NULL THEN "null" ELSE detectToolUsed(arg)
        IN  /\ ret.rendered <=>
                  (arg2 = "bot" /\ classification \in DOMAIN C23_Labels)
            /\ ret.rendered => ret.name = C23_Labels[classification]
            /\ arg2 = "user" => ret = NoBadge

\* A bot message classified as products shows the badge 'Product Search'.
C23_ProductBadgeSeen ==
    /\ fn = "MessageBubble"
    /\ arg2 = "bot"
    /\ detectToolUsed(arg) = "products"
    /\ ret.rendered
    /\ ret.name = "Product Search"

\* The same text sent by the user shows no badge.
C23_UserMessageWithoutBadgeSeen ==
    /\ fn = "MessageBubble"
    /\ arg2 = "user"
    /\ arg # NULL
    /\ detectToolUsed(arg) = "calculator"
    /\ ~ret.rendered

\* ---------------------------------------------------------------------
\* C24: isCommand.

\* C24: isCommand(input) is true iff the input is non-empty and, after
\* trimming leading and trailing whitespace, its first character is '/';
\* it is false for the empty string, for null and for whitespace-only
\* input.
C24_IsCommandIffSlashFirst ==
    fn = "isCommand" =>
        /\ ret = (/\ arg # NULL
                  /\ \E i \in 1..Len(arg) :
                        /\ arg[i] = "/"
                        /\ \A j \in 1..(i - 1) : arg[j] \in {" ", "\t", "\n"})
        /\ (arg = NULL \/ \A i \in 1..Len(arg) : arg[i] \in {" ", "\t", "\n"}) => ret = FALSE

\* isCommand answered true for a command typed after leading whitespace.
C24_LeadingWhitespaceCommandSeen ==
    /\ fn = "isCommand"
    /\ arg = <<" ", " ", "/", "c", "a", "l", "c">>
    /\ ret = TRUE

\* ---------------------------------------------------------------------
\* C25: the selection of the suggestion dropdown.

\* While the dropdown is shown the list is non-empty and the selected
\* index is one of its positions, counted from 0.
C25_SelectionInRange ==
    showSuggestions =>
        /\ Len(suggestions) > 0
        /\ 0 <= selectedSuggestionIndex
        /\ selectedSuggestionIndex < Len(suggestions)

\* With the dropdown shown, ArrowDown moves the selection down by one and
\* wraps from the last entry to the first; ArrowUp moves it up by one and
\* wraps from the first entry to the last.
C25_ArrowsMoveAndWrap ==
    \A shiftKey \in BOOLEAN :
        /\ (~isLoading /\ showSuggestions /\ handleKeyDown("ArrowDown", shiftKey))
              => selectedSuggestionIndex' =
                    (selectedSuggestionIndex + 1) % Len(suggestions)
        /\ (~isLoading /\ showSuggestions /\ handleKeyDown("ArrowUp", shiftKey))
              => selectedSuggestionIndex' =
                    (selectedSuggestionIndex + Len(suggestions) - 1) % Len(suggestions)

\* C25 as stated: while the dropdown is shown the list is non-empty and
\* the index is in range, the arrows move and wrap, and every change of the
\* input text resets the selection to 0.
C25_EveryChangeResetsSelection ==
    [][/\ C25_SelectionInRange'
       /\ C25_ArrowsMoveAndWrap
       /\ \A newMessage \in TypedTexts :
             (~isLoading /\ handleChange(newMessage)) => selectedSuggestionIndex' = 0]_vars

\* C25 amended: while the dropdown is shown the list is non-empty and the
\* index is in range, the arrows move and wrap, and every change of the
\* input text that leaves a command in the input resets the selection to 0
\* and shows the dropdown only with a non-empty list; a change to a text
\* that is not a command hides the dropdown and leaves the index as it was.
C25_CommandChangeResetsSelection ==
    [][/\ C25_SelectionInRange'
       /\ C25_ArrowsMoveAndWrap
       /\ \A newMessage \in TypedTexts :
             (~isLoading /\ handleChange(newMessage))
                => IF isCommand(newMessage)
                   THEN selectedSuggestionIndex' = 0
                   ELSE /\ ~showSuggestions'
                        /\ selectedSuggestionIndex' = selectedSuggestionIndex]_vars

\* The whole menu is shown with the last entry selected: ArrowUp from the
\* first entry, or four times ArrowDown.
C25_LastEntrySelectedSeen ==
    /\ showSuggestions
    /\ Len(suggestions) = 5
    /\ selectedSuggestionIndex = 4
    /\ inputMessage = <<"/">>

\* The dropdown was closed by a change to a text that is not a command,
\* with the index left on another entry than the first.
C25_IndexKeptWhenHiddenSeen ==
    /\ ~showSuggestions
    /\ ~isCommand(inputMessage)
    /\ inputMessage # <<>>
    /\ selectedSuggestionIndex > 0
    /\ sent = <<>>

\* ---------------------------------------------------------------------
\* C26: Enter and Escape while the dropdown is shown.

\* C26: while the dropdown is shown with at least one suggestion, Enter
\* without Shift puts the selected command into the input (the input
\* becomes its display form followed by a space, the dropdown closes) and
\* sends nothing; Escape closes the dropdown and leaves the input as it
\* is; Enter without Shift sends only when the dropdown is closed, and
\* then it sends the trimmed input if that is not empty.
C26_EnterSelectsEscapeCloses ==
    [][/\ (~isLoading /\ showSuggestions /\ Len(suggestions) > 0
                      /\ handleKeyDown("Enter", FALSE))
             => /\ inputMessage' =
                     suggestions[selectedSuggestionIndex + 1].display \o <<" ">>
                /\ ~showSuggestions'
                /\ sent' = sent
                /\ isLoading' = isLoading
       /\ \A shiftKey \in BOOLEAN :
             (~isLoading /\ showSuggestions /\ Len(suggestions) > 0
                         /\ handleKeyDown("Escape", shiftKey))
                => /\ ~showSuggestions'
                   /\ inputMessage' = inputMessage
                   /\ sent' = sent
       /\ (~isLoading /\ handleKeyDown("Enter", FALSE) /\ sent' # sent)
             => /\ ~showSuggestions
                /\ sent' = Append(sent, trim(inputMessage))
                /\ trim(inputMessage) # <<>>
                /\ inputMessage' = <<>>]_vars

\* The second entry of the menu was selected with Enter: the input holds
\* '/products ', the dropdown is closed and nothing was sent.
C26_SuggestionInsertedSeen ==
    /\ inputMessage = <<"/", "p", "r", "o", "d", "u", "c", "t", "s", " ">>
    /\ ~showSuggestions
    /\ selectedSuggestionIndex = 1
    /\ sent = <<>>
    /\ ~isLoading

\* ---------------------------------------------------------------------
\* C27: a history response.

\* The history in message form: for each turn the user input then the bot
\* output, in turn order.
C27_Converted(history) ==
    [i \in 1..(2 * Len(history)) |->
        IF i % 2 = 1
        THEN [message |-> history[(i + 1) \div 2].input, sender |-> "user"]
        ELSE [message |-> history[i \div 2].output, sender |-> "bot"]]

\* C27: when a history response arrives, messages is replaced by the
\* converted history (two messages per turn) only if messages is empty at
\* that moment and the history is non-empty, and is unchanged otherwise; a
\* failed or non-OK history request changes nothing.
C27_HistoryNeverOverrides ==
    [][/\ \A req \in historyRequests, data \in BackendHistories :
             historyResolves(req, data)
                => /\ messages' =
                        IF Len(messages) = 0 /\ data.hasHistory /\ Len(data.history) > 0
                        THEN C27_Converted(data.history)
                        ELSE messages
                   /\ UNCHANGED <<isLoading, sessionId, error>>
                   /\ localStorage'.chatSessionId = localStorage.chatSessionId
       /\ HistoryFails
             => UNCHANGED <<messages, isLoading, sessionId, error, localStorage>>]_vars

\* The list holds the two turns of a history the backend returned, four
\* messages, which nothing else can have put there.
C27_HistoryShownSeen ==
    /\ Len(messages) = 4
    /\ messages[1] = [message |-> <<"q", "1">>, sender |-> "user"]
    /\ messages[2] = [message |-> <<"a", "1">>, sender |-> "bot"]
    /\ messages[3] = [message |-> <<"q", "2">>, sender |-> "user"]
    /\ messages[4] = [message |-> <<"a", "2">>, sender |-> "bot"]
    /\ historyRequests = {}

\* ---------------------------------------------------------------------
\* C28: responses in flight across a clear.

\* A response arrives: a chat POST or a history GET settles.
C28_ResponseArrives ==
    ChatResolves \/ ChatHttpError \/ ChatRejects \/ HistoryResolves \/ HistoryFails

\* C28: once a confirmed clear has emptied the conversation (no message,
\* no session id in state or in localStorage), a response that was still
\* in flight leaves it so: messages stay empty and no session id is held.
C28_ClearedStaysCleared ==
    [][(/\ messages = <<>>
        /\ sessionId = NULL
        /\ localStorage.chatSessionId = NULL
        /\ C28_ResponseArrives)
           => /\ messages' = <<>>
              /\ sessionId' = NULL
              /\ localStorage'.chatSessionId = NULL]_vars

\* ---------------------------------------------------------------------
\* C29: a clear that is declined or whose DELETE rejects.

\* C29: if the user declines the confirmation, or if the session DELETE
\* rejects with a network error, messages, sessionId and both localStorage
\* keys are left unchanged; a DELETE that completes, with whatever HTTP
\* status, clears the local state.
C29_ClearOnlyWhenDeleteCompletes ==
    [][/\ (handleClearChat(FALSE, error) \/ handleClearChat(FALSE, NULL))
             => UNCHANGED <<messages, sessionId, localStorage>>
       /\ DeleteRejects
             => UNCHANGED <<messages, sessionId, localStorage>>
       /\ DeleteResolves
             => /\ messages' = <<>>
                /\ sessionId' = NULL
                /\ localStorage'.chatSessionId = NULL
                /\ localStorage'.chatMessages = NULL]_vars

\* A confirmed clear is awaiting its DELETE, which may reject and then
\* leaves the conversation and its session as they are.
C29_DeleteMayRejectSeen ==
    /\ pendingDeletes > 0
    /\ sessionId # NULL
    /\ Len(messages) > 0
    /\ localStorage.chatSessionId = sessionId
    /\ ENABLED (/\ DeleteRejects
                /\ messages' = messages
                /\ sessionId' = sessionId
                /\ localStorage' = localStorage
                /\ UNCHANGED <<fnVars, icVars>>)

\* ---------------------------------------------------------------------
\* C30: the held session id.

\* C30: once sessionId is non-null, every chat response leaves sessionId
\* and localStorage 'chatSessionId' unchanged, also when it carries another
\* session_id; and localStorage 'chatSessionId' is present exactly when
\* sessionId is non-null (and is then that id).
C30_HeldSessionKept ==
    /\ [][\A req \in chatRequests, reply \in BackendReplies, sid \in SessionIds \cup {NULL} :
             (sessionId # NULL /\ chatResolves(req, reply, sid))
                => /\ sessionId' = sessionId
                   /\ localStorage'.chatSessionId = localStorage.chatSessionId]_vars
    /\ []((localStorage.chatSessionId # NULL) <=> (sessionId # NULL))
    /\ [](sessionId # NULL => localStorage.chatSessionId = sessionId)

\* The session s1 is held and a reply carrying s2 can arrive, after which
\* s1 is still held.
C30_OtherSessionIdIgnoredSeen ==
    /\ sessionId = <<"s", "1">>
    /\ localStorage.chatSessionId = <<"s", "1">>
    /\ \E req \in chatRequests :
          ENABLED (/\ chatResolves(req, <<"H", "e", "l", "l", "o">>, <<"s", "2">>)
                   /\ sessionId' = <<"s", "1">>
                   /\ localStorage'.chatSessionId = <<"s", "1">>
                   /\ UNCHANGED <<fnVars, icVars>>)

====
